---- MODULE Spec2Model ----
(***************************************************************************)
(* BaseClient of tickvaultpythonapi/client.py: get_token, run_query and    *)
(* query.  A call is one atomic step (the client is single-threaded and    *)
(* synchronous); the state records what the call was given, the Python     *)
(* objects alive when it ended, the calls it made to query, the HTTP       *)
(* requests it issued and how it ended.                                    *)
(*                                                                         *)
(* Python objects live in `heap`, a sequence whose index is the object's   *)
(* identity, so that rebinding a name and mutating an object differ.       *)
(* A dict is its items in insertion order (the language guarantee of       *)
(* Python 3.7, the implementation of CPython 3.6), a str is its            *)
(* characters, a list is its elements.                                     *)
(***************************************************************************)
EXTENDS Integers, Sequences, FiniteSets, TLC

VARIABLES
    given,      \* the call's arguments as the caller supplied them
    heap,       \* the Python objects when the call ended
    queryCalls, \* the calls made to self.query, in order: [endpoint, params]
    requests,   \* the HTTP requests issued, in order: [method, endpoint]
    response,   \* what the HTTP layer answered to the (last) request
    outcome     \* how the call ended: returned, raised or exited

vars == <<given, heap, queryCalls, requests, response, outcome>>

-----------------------------------------------------------------------------
(* Bounds *)

\* longest predicate sequence handed to run_query
MaxTerms == 3
\* longest response body, in characters
MaxText == 2

-----------------------------------------------------------------------------
(* Inputs *)

NUL == "\\x00"

\* predicate terms as the parser builds them, and one term-like object that
\* lacks a required attribute
Terms ==
    { [field |-> f, operator |-> "=", values |-> <<"QA", "QB">>, wellformed |-> TRUE]
        : f \in {"line_type", "askprice"} }
    \cup
    { [field |-> f, operator |-> ">=", values |-> <<"3">>, wellformed |-> TRUE]
        : f \in {"line_type", "askprice", "limit"} }
    \cup
    { [field |-> "askprice", operator |-> "~~", values |-> <<>>, wellformed |-> FALSE] }

SeqsUpTo(S, n) == UNION { [1..k -> S] : k \in 0..n }

PredicateLists == SeqsUpTo(Terms, MaxTerms)

ParamKeys == {"limit", "fields"}

\* the params dicts a caller builds: every ordering of every subset of keys
ParamItems ==
    { [i \in 1..Len(ks) |-> <<ks[i], "10">>] :
        ks \in { s \in SeqsUpTo(ParamKeys, Cardinality(ParamKeys)) :
                    \A i, j \in 1..Len(s) : i # j => s[i] # s[j] } }

Texts == SeqsUpTo({NUL, "x"}, MaxText)

PyStr(chars) == [type |-> "str", items |-> chars]
PyDict(items) == [type |-> "dict", items |-> items]
PyList(elems) == [type |-> "list", items |-> elems]

\* params="" and predicates="" are the defaults of run_query and query
DefaultArg == PyStr(<<>>)

ParamsArgs == {DefaultArg} \cup { PyDict(it) : it \in ParamItems }
PredicatesArgs == {DefaultArg} \cup { PyList(l) : l \in PredicateLists }

\* the placeholders of the endpoint pattern, and the key sets of replace_dict
Placeholders == {"dataset"}
ReplaceKeys == { {}, {"dataset"} }

\* what requests.get / requests.post can do: raise, or answer with a status
\* and a body; json is what ujson.loads makes of the body
Responses ==
    { [raises |-> r, ok |-> FALSE, text |-> <<>>, json |-> "ValueError"]
        : r \in {"ConnectionError", "Exception"} }
    \cup
    { [raises |-> "none", ok |-> FALSE, text |-> <<>>, json |-> "ValueError"] }
    \cup
    { [raises |-> "none", ok |-> TRUE, text |-> t, json |-> "ValueError"]
        : t \in Texts }

TokenResponses ==
    { r \in Responses : ~r.ok }
    \cup
    { [raises |-> "none", ok |-> TRUE, text |-> <<"x">>, json |-> j]
        : j \in {"ValueError", "KeyError", "token"} }

-----------------------------------------------------------------------------
(* Python values *)

\* bool(x) of a str, a dict or a list
Truthy(obj) == obj.items # <<>>

Keys(items) == { items[i][1] : i \in 1..Len(items) }

KeySeq(items) == [i \in 1..Len(items) |-> items[i][1]]

Get(items, k) == items[CHOOSE i \in 1..Len(items) : items[i][1] = k][2]

\* d[k] = v where the earlier value of a key is kept
DictSetKeepFirst(items, k, v) ==
    IF k \in Keys(items) THEN items ELSE Append(items, <<k, v>>)

\* d[k] = v where a key already present is deleted and inserted anew
DictSetMoveToEnd(items, k, v) ==
    Append(SelectSeq(items, LAMBDA it : it[1] # k), <<k, v>>)

\* d[k] = v: a key already present keeps its position and takes the new
\* value, a new key goes last
DictSet(items, k, v) ==
    IF k \in Keys(items)
    THEN [i \in 1..Len(items) |-> IF items[i][1] = k THEN <<k, v>> ELSE items[i]]
    ELSE Append(items, <<k, v>>)

\* dict(pairs) and {**items, **pairs}: the pairs are assigned left to right
RECURSIVE DictUpdate(_, _)
DictUpdate(items, pairs) ==
    IF pairs = <<>> THEN items
    ELSE DictUpdate(DictSet(items, Head(pairs)[1], Head(pairs)[2]), Tail(pairs))

\* ','.join(values)
RECURSIVE JoinComma(_)
JoinComma(values) ==
    IF values = <<>> THEN ""
    ELSE IF Len(values) = 1 THEN values[1]
    ELSE values[1] \o "," \o JoinComma(Tail(values))

\* str.rstrip('\x00') left undone
RStripNulNot(chars) == chars

\* str.rstrip('\x00')
RECURSIVE RStripNul(_)
RStripNul(chars) ==
    IF chars # <<>> /\ chars[Len(chars)] = NUL
    THEN RStripNul(SubSeq(chars, 1, Len(chars) - 1))
    ELSE chars

-----------------------------------------------------------------------------
(* Predicate.get_as_tuple *)

get_as_tuple(term) == <<term.field, JoinComma(term.values)>>

get_as_tuple_raises(term) == ~term.wellformed

-----------------------------------------------------------------------------
(* How a call ends *)

Returned(v) == [kind |-> "returned", value |-> v, error |-> ""]
Raised(e) == [kind |-> "raised", value |-> <<>>, error |-> e]
Exited(msg) == [kind |-> "exited", value |-> <<>>, error |-> msg]

NoResponse == [raises |-> "none", ok |-> FALSE, text |-> <<>>, json |-> "ValueError"]

-----------------------------------------------------------------------------
(* BaseClient.query *)

\* requests.get is called a second time after a failure
QueryRequestsRetrying(endpoint, resp) ==
    IF resp.raises # "none" \/ ~resp.ok
    THEN << [method |-> "GET", endpoint |-> endpoint],
            [method |-> "GET", endpoint |-> endpoint] >>
    ELSE << [method |-> "GET", endpoint |-> endpoint] >>

\* line 139: the one call to requests.get
QueryRequests(endpoint, resp) == << [method |-> "GET", endpoint |-> endpoint] >>

\* lines 138-147 and 83-93: the try block around the request.  The request
\* raises, or raise_for_status raises HTTPError on an error status; each
\* handler ends in sys.exit.
RequestExit(resp) ==
    IF resp.raises = "ConnectionError" THEN Exited("ConnectionError")
    ELSE IF resp.raises = "Exception" THEN Exited("Exception")
    ELSE IF ~resp.ok THEN Exited("HTTPError")
    ELSE Returned(<<>>)

\* bool(response): requests.Response is true when its status is no error
ResponseTruthy(resp) == resp.ok

\* lines 138-152: how query ends on the answer resp
query_outcome(resp) ==
    IF RequestExit(resp).kind = "exited" THEN RequestExit(resp)
    ELSE IF ~ResponseTruthy(resp) \/ RStripNul(resp.text) = <<>>
    THEN Exited("Request returned no results")
    ELSE Returned(resp.text)

\* query(endpoint, auth, params): params is the identity of the object passed
query(h, endpoint, params, resp) ==
    [ heap       |-> h,
      queryCalls |-> << [endpoint |-> endpoint, params |-> params] >>,
      requests   |-> QueryRequests(endpoint, resp),
      outcome    |-> query_outcome(resp) ]

-----------------------------------------------------------------------------
(* BaseClient.run_query *)

\* line 114: str.format raises KeyError for a placeholder replace_dict lacks
FormatRaises(placeholders, replace_keys) == ~(placeholders \subseteq replace_keys)

FormatEndpoint(placeholders) ==
    IF "dataset" \in placeholders THEN "/api/cx_hits" ELSE "/api"

\* map(...) that leaves out the terms whose conversion fails
TuplesOfSkipping(terms) ==
    LET good == SelectSeq(terms, LAMBDA t : ~get_as_tuple_raises(t))
    IN  [ raises |-> FALSE,
          pairs  |-> [i \in 1..Len(good) |-> get_as_tuple(good[i])] ]

\* map(...) that starts at the second term
TuplesOfTail(terms) ==
    [ raises |-> \E i \in 1..Len(terms) : get_as_tuple_raises(terms[i]),
      pairs  |-> [i \in 1..(Len(terms) - 1) |-> get_as_tuple(terms[i + 1])] ]

\* line 120: list(map(Predicate.get_as_tuple, predicates)); an exception of
\* get_as_tuple leaves map, list and dict
TuplesOf(terms) ==
    [ raises |-> \E i \in 1..Len(terms) : get_as_tuple_raises(terms[i]),
      pairs  |-> [i \in 1..Len(terms) |-> get_as_tuple(terms[i])] ]

\* lines 118-119: params is rebound to a new empty dict when it is falsy
Line118(h, params) ==
    IF ~Truthy(h[params])
    THEN [heap |-> Append(h, PyDict(<<>>)), params |-> Len(h) + 1]
    ELSE [heap |-> h, params |-> params]

\* {**preds, **params}
Line121Swapped(h, params, pairs) ==
    [ heap   |-> Append(h, PyDict(DictUpdate(DictUpdate(<<>>, pairs), h[params].items))),
      params |-> Len(h) + 1 ]

\* params.update(preds)
Line121InPlace(h, params, pairs) ==
    [ heap   |-> [h EXCEPT ![params] = PyDict(DictUpdate(h[params].items, DictUpdate(<<>>, pairs)))],
      params |-> params ]

\* lines 120-121: preds = dict(pairs); params = {**params, **preds}, a new
\* dict to which params is rebound
Line121(h, params, pairs) ==
    [ heap   |-> Append(h, PyDict(DictUpdate(h[params].items, DictUpdate(<<>>, pairs)))),
      params |-> Len(h) + 1 ]

\* lines 116-121 with lines 118-119 moved out of `if predicates:`
PopulateParamsEager(h, params, predicates) ==
    LET f == Line118(h, params)
        t == TuplesOf(h[predicates].items)
    IN  IF ~Truthy(h[predicates])
        THEN [heap |-> f.heap, params |-> f.params, raises |-> FALSE]
        ELSE IF t.raises
        THEN [heap |-> f.heap, params |-> f.params, raises |-> TRUE]
        ELSE [heap |-> Line121(f.heap, f.params, t.pairs).heap,
              params |-> Line121(f.heap, f.params, t.pairs).params,
              raises |-> FALSE]

\* lines 116-121: the predicates' tuples are added to params
PopulateParams(h, params, predicates) ==
    IF ~Truthy(h[predicates])
    THEN [heap |-> h, params |-> params, raises |-> FALSE]
    ELSE LET f == Line118(h, params)
             t == TuplesOf(h[predicates].items)
         IN  IF t.raises
             THEN [heap |-> f.heap, params |-> f.params, raises |-> TRUE]
             ELSE [heap |-> Line121(f.heap, f.params, t.pairs).heap,
                   params |-> Line121(f.heap, f.params, t.pairs).params,
                   raises |-> FALSE]

\* lines 114-123; no try statement: what format or get_as_tuple raises
\* leaves run_query, and what query does is what run_query does
run_query(h, placeholders, replace_keys, params, predicates, resp) ==
    IF FormatRaises(placeholders, replace_keys)
    THEN [heap |-> h, queryCalls |-> <<>>, requests |-> <<>>,
          outcome |-> Raised("KeyError")]
    ELSE LET f == PopulateParams(h, params, predicates)
         IN  IF f.raises
             THEN [heap |-> f.heap, queryCalls |-> <<>>, requests |-> <<>>,
                   outcome |-> Raised("InvalidTermError")]
             ELSE query(f.heap, FormatEndpoint(placeholders), f.params, resp)

-----------------------------------------------------------------------------
(* BaseClient.get_token *)

\* lines 39-41: sys.exit with the message when value is empty
exit_on_empty_input(field, value) ==
    IF value = ""
    THEN Exited("Please provide a value for the field : " \o field)
    ELSE Returned(<<>>)

\* lines 96-97: ujson.loads(response.text)["access_token"]
AccessToken(resp) ==
    IF resp.json = "ValueError" THEN Raised("ValueError")
    ELSE IF resp.json = "KeyError" THEN Raised("KeyError")
    ELSE Returned(<<resp.json>>)

\* lines 78-85: the one call to requests.post.  An empty url leaves the
\* endpoint "/sso/token" without a scheme, which requests refuses with
\* MissingSchema before it sends anything.
TokenRequests(url) ==
    IF url = "" THEN <<>>
    ELSE << [method |-> "POST", endpoint |-> url \o "/sso/token"] >>

\* lines 73-97.  Lines 74-76 pass the value as `field` and the field's name
\* as `value`, as the source does.
get_token(url, user_name, secret_key, resp) ==
    LET c1 == exit_on_empty_input(url, "url")
        c2 == exit_on_empty_input(user_name, "username")
        c3 == exit_on_empty_input(secret_key, "api key")
        post == TokenRequests(url)
    IN  IF c1.kind = "exited" THEN [requests |-> <<>>, outcome |-> c1]
        ELSE IF c2.kind = "exited" THEN [requests |-> <<>>, outcome |-> c2]
        ELSE IF c3.kind = "exited" THEN [requests |-> <<>>, outcome |-> c3]
        ELSE IF RequestExit(resp).kind = "exited"
        THEN [requests |-> post, outcome |-> RequestExit(resp)]
        ELSE [requests |-> post, outcome |-> AccessToken(resp)]

-----------------------------------------------------------------------------
(* The client as a state machine: one step per call *)

NoArgs ==
    [ op |-> "none", params |-> DefaultArg, predicates |-> DefaultArg,
      placeholders |-> {}, replace_keys |-> {},
      url |-> "", user_name |-> "", secret_key |-> "" ]

Init ==
    /\ given = NoArgs
    /\ heap = <<>>
    /\ queryCalls = <<>>
    /\ requests = <<>>
    /\ response = NoResponse
    /\ outcome = Returned(<<>>)

\* no call is in progress: the client keeps nothing between calls
Idle == given.op = "none"

\* the call has ended and the caller goes on to its next call
Return ==
    /\ ~Idle
    /\ given' = NoArgs
    /\ heap' = <<>>
    /\ queryCalls' = <<>>
    /\ requests' = <<>>
    /\ response' = NoResponse
    /\ outcome' = Returned(<<>>)

\* the caller's params is object 1 and its predicates object 2
RunQuery ==
    /\ Idle
    /\ \E ph \in {Placeholders}, rk \in ReplaceKeys, p \in ParamsArgs,
          e \in PredicatesArgs, resp \in Responses :
        LET r == run_query(<<p, e>>, ph, rk, 1, 2, resp)
        IN  /\ given' = [NoArgs EXCEPT !.op = "run_query", !.params = p,
                            !.predicates = e, !.placeholders = ph,
                            !.replace_keys = rk]
            /\ heap' = r.heap
            /\ queryCalls' = r.queryCalls
            /\ requests' = r.requests
            /\ response' = IF r.requests = <<>> THEN NoResponse ELSE resp
            /\ outcome' = r.outcome

Query ==
    /\ Idle
    /\ \E p \in ParamsArgs, resp \in Responses :
        LET r == query(<<p>>, "/api", 1, resp)
        IN  /\ given' = [NoArgs EXCEPT !.op = "query", !.params = p]
            /\ heap' = r.heap
            /\ queryCalls' = r.queryCalls
            /\ requests' = r.requests
            /\ response' = resp
            /\ outcome' = r.outcome

GetToken ==
    /\ Idle
    /\ \E url \in {"", "https://host"}, user_name \in {"", "user"},
          secret_key \in {"", "key"} :
        \E resp \in { t \in TokenResponses : url = "" => t.raises = "Exception" } :
        LET r == get_token(url, user_name, secret_key, resp)
        IN  /\ given' = [NoArgs EXCEPT !.op = "get_token", !.url = url,
                            !.user_name = user_name, !.secret_key = secret_key]
            /\ heap' = <<>>
            /\ queryCalls' = <<>>
            /\ requests' = r.requests
            /\ response' = resp
            /\ outcome' = r.outcome

Next == RunQuery \/ Query \/ GetToken \/ Return

Spec == Init /\ [][Next]_vars

-----------------------------------------------------------------------------
(* What the properties speak of *)

IsRunQuery == given.op = "run_query"

QueryInvoked == queryCalls # <<>>

\* the object query received as params
Passed == heap[queryCalls[1].params]

GivenTerms == given.predicates.items

GivenParamItems == given.params.items

FieldsOf(terms) == { terms[i].field : i \in 1..Len(terms) }

\* the position of the last term on field f
LastTermOn(terms, f) ==
    CHOOSE i \in 1..Len(terms) :
        /\ terms[i].field = f
        /\ \A j \in (i + 1)..Len(terms) : terms[j].field # f

\* the fields of terms outside `seen`, each once, in the order of their first
\* occurrence
RECURSIVE FirstOccurrences(_, _)
FirstOccurrences(terms, seen) ==
    IF terms = <<>> THEN <<>>
    ELSE IF Head(terms).field \in seen
    THEN FirstOccurrences(Tail(terms), seen)
    ELSE <<Head(terms).field>>
            \o FirstOccurrences(Tail(terms), seen \cup {Head(terms).field})

PairwiseDistinctFields(terms) ==
    \A i, j \in 1..Len(terms) : i # j => terms[i].field # terms[j].field

OnlyNuls(chars) == \A i \in 1..Len(chars) : chars[i] = NUL

EndpointFormatted == ~FormatRaises(given.placeholders, given.replace_keys)

-----------------------------------------------------------------------------
(* Properties *)

\* C1: when two or more terms of the predicate sequence given to run_query
\* have the same field, the params passed to query hold for that field the
\* serialized value of the last such term, wherever the duplicates stand.
C1_LastWriteWins ==
    (IsRunQuery /\ QueryInvoked) =>
        \A i, j \in 1..Len(GivenTerms) :
            ( /\ i < j
              /\ GivenTerms[i].field = GivenTerms[j].field
              /\ j = LastTermOn(GivenTerms, GivenTerms[j].field) )
            => /\ GivenTerms[j].field \in Keys(Passed.items)
               /\ Get(Passed.items, GivenTerms[j].field)
                    = get_as_tuple(GivenTerms[j])[2]

\* a field used twice with different values, the earlier value first
C1_Witness ==
    /\ IsRunQuery /\ QueryInvoked
    /\ Len(GivenTerms) = 3
    /\ GivenTerms[1].field = "askprice" /\ GivenTerms[1].values = <<"QA", "QB">>
    /\ GivenTerms[2].field = "line_type"
    /\ GivenTerms[3].field = "askprice" /\ GivenTerms[3].values = <<"3">>
    /\ Get(Passed.items, "askprice") = "3"

\* C2: for existing params P and a non-empty predicate sequence E, the params
\* passed to query have the keys of P and the fields of E and no others; a
\* key of P that is no field of E keeps its value, and a field of E carries
\* the predicate's serialized value, also over a same-named key of P.
C2_UnionWithOverwrite ==
    (IsRunQuery /\ QueryInvoked /\ GivenTerms # <<>>) =>
        /\ Passed.type = "dict"
        /\ Keys(Passed.items) = Keys(GivenParamItems) \cup FieldsOf(GivenTerms)
        /\ Len(Passed.items) = Cardinality(Keys(Passed.items))
        /\ \A k \in Keys(GivenParamItems) \ FieldsOf(GivenTerms) :
                Get(Passed.items, k) = Get(GivenParamItems, k)
        /\ \A f \in FieldsOf(GivenTerms) :
                Get(Passed.items, f)
                    = get_as_tuple(GivenTerms[LastTermOn(GivenTerms, f)])[2]

\* params with an unrelated key and a key a predicate overwrites
C2_Witness ==
    /\ IsRunQuery /\ QueryInvoked
    /\ GivenParamItems = << <<"fields", "10">>, <<"limit", "10">> >>
    /\ FieldsOf(GivenTerms) = {"limit", "line_type"}
    /\ Get(Passed.items, "fields") = "10"
    /\ Get(Passed.items, "limit") = "3"
    /\ Get(Passed.items, "line_type") = "QA,QB"

\* C3: with no predicate term (predicates empty or not supplied) run_query
\* passes to query the very params it was given, unchanged, whatever they
\* are: not supplied, an empty dict or a filled one.
C3_NoPredicatesParamsUnchanged ==
    (IsRunQuery /\ ~Truthy(given.predicates) /\ EndpointFormatted) =>
        /\ Len(queryCalls) = 1
        /\ queryCalls[1].params = 1
        /\ Passed = given.params

\* params not supplied and predicates not supplied: query receives ""
C3_Witness ==
    /\ IsRunQuery /\ QueryInvoked
    /\ given.predicates = DefaultArg
    /\ given.params = DefaultArg
    /\ Passed = DefaultArg

\* C4: when the conversion of a term to its tuple fails, run_query ends by
\* raising that error: it neither exits the process nor invokes query, so no
\* request goes out.  Hence, whenever query is invoked with a non-empty
\* predicate sequence, the field of every term is a key of the params.
C4_ConversionErrorPropagates ==
    IsRunQuery =>
        /\ (\E i \in 1..Len(GivenTerms) : get_as_tuple_raises(GivenTerms[i]))
            => /\ outcome.kind = "raised"
               /\ EndpointFormatted => outcome = Raised("InvalidTermError")
               /\ queryCalls = <<>>
               /\ requests = <<>>
        /\ (QueryInvoked /\ GivenTerms # <<>>)
            => \A i \in 1..Len(GivenTerms) :
                    GivenTerms[i].field \in Keys(Passed.items)

\* a failing term between two good ones
C4_Witness ==
    /\ IsRunQuery
    /\ Len(GivenTerms) = 3
    /\ ~get_as_tuple_raises(GivenTerms[1])
    /\ get_as_tuple_raises(GivenTerms[2])
    /\ ~get_as_tuple_raises(GivenTerms[3])
    /\ outcome = Raised("InvalidTermError")
    /\ requests = <<>>

\* C5: run_query leaves the caller's params and predicates as they were, and
\* the merged mapping it passes to query is a new object.
C5_InputsNotMutated ==
    IsRunQuery =>
        /\ heap[1] = given.params
        /\ heap[2] = given.predicates
        /\ (QueryInvoked /\ Truthy(given.predicates))
            => /\ queryCalls[1].params \notin {1, 2}
               /\ Passed.type = "dict"

\* a predicate on a key the caller's params hold
C5_Witness ==
    /\ IsRunQuery /\ QueryInvoked
    /\ "limit" \in Keys(GivenParamItems)
    /\ "limit" \in FieldsOf(GivenTerms)
    /\ Get(Passed.items, "limit") # Get(GivenParamItems, "limit")
    /\ heap[1] = given.params

\* C6: in the params passed to query the keys of the given params come first,
\* in their order, then the predicate fields the params did not hold, in the
\* order of their first occurrence in the predicate sequence.
C6_InsertionOrder ==
    (IsRunQuery /\ QueryInvoked /\ GivenTerms # <<>>) =>
        KeySeq(Passed.items)
            = KeySeq(GivenParamItems)
                \o FirstOccurrences(GivenTerms, Keys(GivenParamItems))

\* two params, a predicate on the second of them, a repeated new field
C6_Witness ==
    /\ IsRunQuery /\ QueryInvoked
    /\ KeySeq(GivenParamItems) = <<"fields", "limit">>
    /\ [i \in 1..Len(GivenTerms) |-> GivenTerms[i].field]
            = <<"line_type", "limit", "line_type">>
    /\ KeySeq(Passed.items) = <<"fields", "limit", "line_type">>

\* C7: n >= 1 terms merged into empty or absent params give between 1 and n
\* keys, and n keys exactly when the n fields are pairwise distinct.
C7_KeyCount ==
    (IsRunQuery /\ QueryInvoked /\ GivenTerms # <<>> /\ GivenParamItems = <<>>) =>
        /\ Len(Passed.items) = Cardinality(Keys(Passed.items))
        /\ Len(Passed.items) >= 1
        /\ Len(Passed.items) <= Len(GivenTerms)
        /\ Len(Passed.items) = Len(GivenTerms)
                <=> PairwiseDistinctFields(GivenTerms)

\* three terms on two fields give two keys
C7_Witness ==
    /\ IsRunQuery /\ QueryInvoked
    /\ GivenParamItems = <<>>
    /\ Len(GivenTerms) = 3
    /\ Cardinality(FieldsOf(GivenTerms)) = 2
    /\ Len(Passed.items) = 2

\* C8: get_token given an empty url, user_name or secret_key exits with
\* 'Please provide a value for the field : <field>' before any POST; the POST
\* is issued only when all three are non-empty.
C8_EmptyInputExits ==
    given.op = "get_token" =>
        /\ given.url = ""
            => /\ outcome = Exited("Please provide a value for the field : url")
               /\ requests = <<>>
        /\ (given.url # "" /\ given.user_name = "")
            => /\ outcome = Exited("Please provide a value for the field : username")
               /\ requests = <<>>
        /\ (given.url # "" /\ given.user_name # "" /\ given.secret_key = "")
            => /\ outcome = Exited("Please provide a value for the field : api key")
               /\ requests = <<>>

\* C9: query returns no body without results: when the request succeeded and
\* the body is empty or NULs only, the process exits with 'Request returned
\* no results'; otherwise query returns response.text as it is.
C9_NoResultlessBody ==
    (given.op \in {"query", "run_query"} /\ QueryInvoked) =>
        /\ outcome.kind = "returned" => ~OnlyNuls(outcome.value)
        /\ (response.raises = "none" /\ response.ok) =>
                IF OnlyNuls(response.text)
                THEN outcome = Exited("Request returned no results")
                ELSE outcome = Returned(response.text)

\* a body ending in NUL is returned with the NUL
C9_Witness ==
    /\ given.op = "query"
    /\ response.text = <<"x", NUL>>
    /\ outcome = Returned(<<"x", NUL>>)

\* C10: query and get_token issue one HTTP request per call and never a
\* second; they return a value only when the request raised nothing and the
\* status was no error, and on an error status, a connection error or any
\* other exception of the request the process exits.
C10_OneRequestExitOnError ==
    /\ Len(requests) <= 1
    /\ Len(requests) = Len(queryCalls) \/ given.op = "get_token"
    /\ given.op = "query" => Len(requests) = 1
    /\ (given.op = "get_token" /\ given.url # "" /\ given.user_name # ""
            /\ given.secret_key # "") => Len(requests) = 1
    /\ (given.op # "none" /\ outcome.kind = "returned")
            => /\ Len(requests) = 1
               /\ response.raises = "none"
               /\ response.ok
    /\ (requests # <<>> /\ (response.raises # "none" \/ ~response.ok))
            => outcome.kind = "exited"

\* a connection error ends query by exiting, after one request
C10_Witness ==
    /\ given.op = "query"
    /\ response.raises = "ConnectionError"
    /\ Len(requests) = 1
    /\ outcome.kind = "exited"

====
